---- MODULE Spec2Model ----
(***************************************************************************)
(* The CSV core of the vocabulary list manager (src/app.js): the field     *)
(* escaper, the encoder wordsToCsv, the line tokenizer                     *)
(* parseTwoFieldCsvLine and the decoder csvToWords.                        *)
(*                                                                         *)
(* A JavaScript string is modelled as a sequence of one-character strings, *)
(* so that includes, replace, trim, split and indexing are computed as     *)
(* the code computes them.                                                 *)
(***************************************************************************)
EXTENDS Integers, Sequences, FiniteSets, TLC

VARIABLES
    pc,              \* which call of the core has been made so far
    field,           \* the argument of escapeCsvField
    escaped,         \* the value escapeCsvField returned
    wordsArray,      \* the argument of wordsToCsv: a sequence of Records
    csvString,       \* the CSV text: wordsToCsv's result, csvToWords' argument
    imported,        \* the value csvToWords returned for csvString
    variant,         \* an edited copy of csvString (header, blank lines, CRLF)
    edit,            \* the kind of edit that produced variant
    importedVariant, \* the value csvToWords returned for variant
    line,            \* the argument of parseTwoFieldCsvLine
    trimmedLine,     \* parseTwoFieldCsvLine: line.trim()
    i,               \* parseTwoFieldCsvLine: loop index (1-based here)
    currentField,    \* parseTwoFieldCsvLine: the field being accumulated
    fields,          \* parseTwoFieldCsvLine: the fields completed so far
    inQuote,         \* parseTwoFieldCsvLine: the quoted-region flag
    parsed,          \* parseTwoFieldCsvLine: the returned { word, definition }
    words,           \* the application's in-memory word list
    stored,          \* the localStorage item under STORAGE_KEY
    fileInput,       \* importFileInput.value
    readers,         \* the file texts FileReaders are still reading
    alert,           \* the last alert shown
    download         \* the last CSV file offered for download

vars == <<pc, field, escaped, wordsArray, csvString, imported, variant, edit,
          importedVariant, line, trimmedLine, i, currentField, fields, inQuote, parsed,
          words, stored, fileInput, readers, alert, download>>

escapeVars == <<field, escaped>>
encodeVars == <<wordsArray>>
decodeVars == <<csvString, imported, variant, edit, importedVariant>>
scanVars   == <<line, trimmedLine, i, currentField, fields, inQuote, parsed>>
appVars    == <<words, stored, fileInput, readers, alert, download>>

-----------------------------------------------------------------------------
(* Characters and text *)

Comma == ","
Quote == "\""
LF    == "\n"
CR    == "\r"
Space == " "
Tab   == "\t"

\* null and undefined: values that are no text. A text is a sequence of
\* one-character strings, so neither sentinel equals any text.
Null      == <<"null">>
Undefined == <<"undefined">>

\* The characters String.prototype.trim strips (those the model can draw).
IsWhiteSpace(c) == c \in {Space, Tab, LF, CR}

UpperCase == <<"A","B","C","D","E","F","G","H","I","J","K","L","M",
               "N","O","P","Q","R","S","T","U","V","W","X","Y","Z">>
LowerCase == <<"a","b","c","d","e","f","g","h","i","j","k","l","m",
               "n","o","p","q","r","s","t","u","v","w","x","y","z">>

\* String.prototype.toLowerCase
toLowerCase(s) ==
    [k \in 1..Len(s) |->
        IF \E u \in 1..Len(UpperCase) : UpperCase[u] = s[k]
        THEN LowerCase[CHOOSE u \in 1..Len(UpperCase) : UpperCase[u] = s[k]]
        ELSE s[k]]

\* String.prototype.includes for a one-character needle
includes(s, c) == \E k \in 1..Len(s) : s[k] = c

\* How many times the character c occurs in s.
count(s, c) == Cardinality({k \in 1..Len(s) : s[k] = c})

\* String.prototype.trim
trim(s) ==
    LET keep == {k \in 1..Len(s) : ~IsWhiteSpace(s[k])}
        lo == CHOOSE k \in keep : \A m \in keep : k <= m
        hi == CHOOSE k \in keep : \A m \in keep : k >= m
    IN IF keep = {} THEN <<>> ELSE SubSeq(s, lo, hi)

\* Array.prototype.join
RECURSIVE join(_, _)
join(pieces, sep) ==
    IF pieces = <<>> THEN <<>>
    ELSE IF Len(pieces) = 1 THEN pieces[1]
    ELSE pieces[1] \o sep \o join(Tail(pieces), sep)

\* field.replace(/"/g, '""')
RECURSIVE doubleQuotes(_)
doubleQuotes(s) ==
    IF s = <<>> THEN <<>>
    ELSE (IF Head(s) = Quote THEN <<Quote, Quote>> ELSE <<Head(s)>>)
         \o doubleQuotes(Tail(s))

\* fields[k].replace(/""/g, '"'): leftmost non-overlapping matches
RECURSIVE collapseQuotes(_)
collapseQuotes(s) ==
    IF Len(s) < 2 THEN s
    ELSE IF s[1] = Quote /\ s[2] = Quote
         THEN <<Quote>> \o collapseQuotes(SubSeq(s, 3, Len(s)))
         ELSE <<s[1]>> \o collapseQuotes(Tail(s))

\* splitLines that splits at carriage return + line feed only
RECURSIVE splitLines_CrLfOnly(_)
splitLines_CrLfOnly(s) ==
    IF ~\E n \in 2..Len(s) : s[n - 1] = CR /\ s[n] = LF THEN <<s>>
    ELSE LET k == CHOOSE n \in 2..Len(s) :
                     /\ s[n - 1] = CR /\ s[n] = LF
                     /\ \A m \in 2..(n - 1) : ~(s[m - 1] = CR /\ s[m] = LF)
         IN <<SubSeq(s, 1, k - 2)>> \o splitLines_CrLfOnly(SubSeq(s, k + 1, Len(s)))

\* csvString.split(/\r?\n/): a line ends at each line feed, and a carriage
\* return right before that line feed belongs to the separator.
RECURSIVE splitLines(_)
splitLines(s) ==
    IF ~includes(s, LF) THEN <<s>>
    ELSE LET k == CHOOSE n \in 1..Len(s) :
                     s[n] = LF /\ \A m \in 1..(n - 1) : s[m] # LF
             e == IF k > 1 /\ s[k - 1] = CR THEN k - 2 ELSE k - 1
         IN <<SubSeq(s, 1, e)>> \o splitLines(SubSeq(s, k + 1, Len(s)))

-----------------------------------------------------------------------------
(* The field escaper and the encoder *)

header == <<"w","o","r","d",",","d","e","f","i","n","i","t","i","o","n">>

\* escapeCsvField without the carriage-return test
escapeCsvField_NoCR(f) ==
    LET text == IF f = Null \/ f = Undefined THEN <<>> ELSE f
        needsQuotes == \/ includes(text, Comma)
                       \/ includes(text, Quote)
                       \/ includes(text, LF)
        escapedField == doubleQuotes(text)
    IN IF needsQuotes THEN <<Quote>> \o escapedField \o <<Quote>>
       ELSE escapedField

escapeCsvField(f) ==
    LET text == IF f = Null \/ f = Undefined THEN <<>> ELSE f
        needsQuotes == \/ includes(text, Comma)
                       \/ includes(text, Quote)
                       \/ includes(text, LF)
                       \/ includes(text, CR)
        escapedField == doubleQuotes(text)
    IN IF needsQuotes THEN <<Quote>> \o escapedField \o <<Quote>>
       ELSE escapedField

\* wordsToCsv without the header
wordsToCsv_NoHeader(ws) ==
    LET lines == [k \in 1..Len(ws) |->
                    escapeCsvField(ws[k].word) \o <<Comma>>
                        \o escapeCsvField(ws[k].definition)]
    IN join(lines, <<LF>>)

\* wordsToCsv ending the text with a line feed
wordsToCsv_TrailingNewline(ws) ==
    LET lines == [k \in 1..Len(ws) |->
                    escapeCsvField(ws[k].word) \o <<Comma>>
                        \o escapeCsvField(ws[k].definition)]
    IN join(<<header>> \o lines, <<LF>>) \o <<LF>>

wordsToCsv(ws) ==
    LET lines == [k \in 1..Len(ws) |->
                    escapeCsvField(ws[k].word) \o <<Comma>>
                        \o escapeCsvField(ws[k].definition)]
    IN join(<<header>> \o lines, <<LF>>)

-----------------------------------------------------------------------------
(* The line tokenizer *)

\* The loop-local state of parseTwoFieldCsvLine before the first iteration.
scanStart == [i |-> 1, currentField |-> <<>>, fields |-> <<>>, inQuote |-> FALSE]

\* scanStep that takes every double-quote as a toggle
scanStep_NoEscapedQuote(t, st) ==
    LET char == t[st.i]
    IN IF char = Quote
       THEN [st EXCEPT !.inQuote = ~@, !.i = @ + 1]
       ELSE IF char = Comma /\ ~st.inQuote
            THEN [st EXCEPT !.fields = Append(@, st.currentField),
                            !.currentField = <<>>, !.i = @ + 1]
            ELSE [st EXCEPT !.currentField = @ \o <<char>>, !.i = @ + 1]

\* One iteration of the for loop over trimmedLine, i++ included.
scanStep(t, st) ==
    LET char == t[st.i]
        nextIsQuote == st.i + 1 <= Len(t) /\ t[st.i + 1] = Quote
    IN IF char = Quote
       THEN IF st.inQuote /\ nextIsQuote
            THEN [st EXCEPT !.currentField = @ \o <<Quote>>, !.i = @ + 2]
            ELSE [st EXCEPT !.inQuote = ~@, !.i = @ + 1]
       ELSE IF char = Comma /\ ~st.inQuote
            THEN [st EXCEPT !.fields = Append(@, st.currentField),
                            !.currentField = <<>>, !.i = @ + 1]
            ELSE [st EXCEPT !.currentField = @ \o <<char>>, !.i = @ + 1]

\* The whole loop.
RECURSIVE scanFrom(_, _)
scanFrom(t, st) == IF st.i > Len(t) THEN st ELSE scanFrom(t, scanStep(t, st))

\* fieldOrEmpty that leaves a missing field undefined
fieldOrEmpty_Undefined(fs, k) ==
    IF k <= Len(fs) THEN trim(collapseQuotes(fs[k])) ELSE Undefined

\* fields[k] ? fields[k].replace(/""/g, '"').trim() : ''
fieldOrEmpty(fs, k) ==
    IF k <= Len(fs) /\ fs[k] # <<>> THEN trim(collapseQuotes(fs[k])) ELSE <<>>

\* What follows the loop: push the last field, build the result.
finishLine(st) ==
    LET fs == Append(st.fields, st.currentField)
    IN [word |-> fieldOrEmpty(fs, 1), definition |-> fieldOrEmpty(fs, 2)]

\* The null parseTwoFieldCsvLine returns for a blank line.
nullResult == [null |-> TRUE]

parseTwoFieldCsvLine(l) ==
    IF Len(trim(l)) = 0 THEN nullResult
    ELSE finishLine(scanFrom(trim(l), scanStart))

-----------------------------------------------------------------------------
(* The decoder *)

isBlank(l) == trim(l) = <<>>

\* nonBlankLines without the filter
nonBlankLines_NoFilter(s) == splitLines(s)

\* csvString.split(/\r?\n/).filter(line => line.trim() !== '')
nonBlankLines(s) == SelectSeq(splitLines(s), LAMBDA l : ~isBlank(l))

\* isHeaderLine that compares without trimming
isHeaderLine_NoTrim(l) == toLowerCase(l) = header

isHeaderLine(l) == trim(toLowerCase(l)) = header

\* dataLines that never removes the header line
dataLines_NoShift(s) == nonBlankLines(s)

\* lines after the optional lines.shift()
dataLines(s) ==
    LET lines == nonBlankLines(s)
    IN IF Len(lines) > 0 /\ isHeaderLine(lines[1]) THEN Tail(lines) ELSE lines

\* The id and createdAt csvToWords adds to each record are fresh metadata
\* and are left out.
csvToWords(s) ==
    LET lines == dataLines(s)
        mapped == [k \in 1..Len(lines) |-> parseTwoFieldCsvLine(lines[k])]
    IN SelectSeq(mapped, LAMBDA r : r # nullResult)

-----------------------------------------------------------------------------
(* Bounded inputs *)

MaxFieldLen == 3   \* characters of a value handed to escapeCsvField
MaxWords    == 2   \* Records handed to wordsToCsv
MaxPieces   == 2   \* pieces of text in all the fields of those Records
MaxLineLen  == 5   \* characters of a line handed to parseTwoFieldCsvLine
MaxBlobPieces == 3 \* pieces of a CSV text handed to csvToWords
MaxBlankLines == 1 \* blank lines inserted into one CSV text
MaxListLen  == 2   \* entries the add form may grow the word list to
MaxReaders  == 1   \* files being read at one time

\* A plain letter and every character the escaper, the tokenizer, trim and
\* split treat specially.
Alphabet == {"a", Comma, Quote, LF, CR, Space}

\* Texts are drawn piece by piece: one character, or one of the two column
\* names, so that a Record can spell the header line.
Pieces == {<<c>> : c \in Alphabet}
              \cup {SubSeq(header, 1, 4), SubSeq(header, 6, Len(header))}

PieceSeqs(n) == UNION {[1..m -> Pieces] : m \in 0..n}

RECURSIVE flatten(_)
flatten(ps) == IF Len(ps) = 0 THEN <<>> ELSE ps[1] \o flatten(Tail(ps))

CharTexts(n) == UNION {[1..m -> Alphabet] : m \in 0..n}

\* a,b
commaText == <<"a", ",", "b">>

\* he said "hi"
saidText == <<"h","e"," ","s","a","i","d"," ","\"","h","i","\"">>

FieldValues == CharTexts(MaxFieldLen) \cup {Null, Undefined, saidText}

\* Every sequence of at most n Records whose fields hold at most b pieces.
RECURSIVE RecordSeqs(_, _)
RecordSeqs(n, b) ==
    {<<>>} \cup
    IF n = 0 THEN {}
    ELSE UNION { UNION { { <<[word |-> flatten(pw), definition |-> flatten(pd)]>> \o rest :
                           rest \in RecordSeqs(n - 1, b - Len(pw) - Len(pd)) } :
                         pd \in PieceSeqs(b - Len(pw)) } :
                 pw \in PieceSeqs(b) }

-----------------------------------------------------------------------------
(* The calls *)

\* localStorage.getItem: null, or the saved list. JSON.stringify then
\* JSON.parse gives back a list of entries whose fields are text unchanged.
noItem == [present |-> FALSE, value |-> <<>>]
item(ws) == [present |-> TRUE, value |-> ws]

noAlert == [msg |-> "", n |-> 0]
noDownload == [present |-> FALSE, text |-> <<>>]

AppIdle == /\ words = <<>> /\ stored = noItem /\ fileInput = ""
           /\ readers = {} /\ alert = noAlert /\ download = noDownload

EscapeIdle == field = <<>> /\ escaped = <<>>
EncodeIdle == wordsArray = <<>>
DecodeIdle == /\ csvString = <<>> /\ imported = <<>> /\ variant = <<>>
              /\ edit = "none" /\ importedVariant = <<>>
ScanIdle   == /\ line = <<>> /\ trimmedLine = <<>> /\ i = 1 /\ currentField = <<>>
              /\ fields = <<>> /\ inQuote = FALSE
              /\ parsed = [word |-> <<>>, definition |-> <<>>]

\* escaped = escapeCsvField(field)
EscapeField ==
    /\ pc = "escape"
    /\ escaped' = escapeCsvField(field)
    /\ pc' = "escaped"
    /\ UNCHANGED <<field, encodeVars, appVars, decodeVars, scanVars>>

InitEscape ==
    /\ pc = "escape"
    /\ field \in FieldValues
    /\ escaped = <<>>
    /\ EncodeIdle /\ DecodeIdle /\ ScanIdle
    /\ AppIdle

SpecEscape == InitEscape /\ [][EscapeField]_vars

\* csvString = wordsToCsv(wordsArray)
Export ==
    /\ pc = "export"
    /\ csvString' = wordsToCsv(wordsArray)
    /\ pc' = "file"
    /\ UNCHANGED <<imported, variant, edit, importedVariant,
                   escapeVars, encodeVars, appVars, scanVars>>

\* imported = csvToWords(csvString)
Import ==
    /\ pc = "file"
    /\ imported' = csvToWords(csvString)
    /\ pc' = "imported"
    /\ UNCHANGED <<csvString, variant, edit, importedVariant,
                   escapeVars, encodeVars, appVars, scanVars>>

InitEncode ==
    /\ pc = "export"
    /\ wordsArray \in RecordSeqs(MaxWords, MaxPieces)
    /\ EscapeIdle /\ DecodeIdle /\ ScanIdle
    /\ AppIdle

NextEncode == Export \/ Import

\* WORD,DEFINITION
upperHeader == <<"W","O","R","D",",","D","E","F","I","N","I","T","I","O","N">>

\* A CSV text is drawn piece by piece: one character, or a whole header
\* line in lower or upper case.
BlobPieces == {<<c>> : c \in Alphabet} \cup {header, upperHeader}

\* cat,a small feline
catLine == <<"c","a","t",",","a"," ","s","m","a","l","l"," ",
             "f","e","l","i","n","e">>

\* word, definition
spacedHeader == SubSeq(header, 1, 5) \o <<Space>> \o SubSeq(header, 6, Len(header))

\* term,meaning
otherHeader == <<"t","e","r","m",",","m","e","a","n","i","n","g">>

Blobs == {flatten(ps) : ps \in UNION {[1..m -> BlobPieces] : m \in 0..MaxBlobPieces}}
             \cup {catLine, spacedHeader, otherHeader,
                   spacedHeader \o <<LF>> \o catLine,
                   otherHeader \o <<LF>> \o catLine}

\* Lines that are empty or hold whitespace only.
BlankLines == {<<>>, <<Space>>, <<CR>>}

\* The lines of a text as an editor shows them: what the line feeds separate.
RECURSIVE textLines(_)
textLines(s) ==
    IF ~includes(s, LF) THEN <<s>>
    ELSE LET k == CHOOSE n \in 1..Len(s) :
                     s[n] = LF /\ \A m \in 1..(n - 1) : s[m] # LF
         IN <<SubSeq(s, 1, k - 1)>> \o textLines(SubSeq(s, k + 1, Len(s)))

RECURSIVE withCrLf(_)
withCrLf(s) ==
    IF s = <<>> THEN <<>>
    ELSE (IF Head(s) = LF THEN <<CR, LF>> ELSE <<Head(s)>>) \o withCrLf(Tail(s))

firstLineIsHeader(s) ==
    nonBlankLines(s) # <<>> /\ isHeaderLine(nonBlankLines(s)[1])

\* The file that was imported gets the header line put in front.
AddHeader ==
    /\ pc = "imported"
    /\ edit = "none"
    /\ ~firstLineIsHeader(csvString)
    /\ variant' = header \o <<LF>> \o csvString
    /\ edit' = "header"
    /\ UNCHANGED <<pc, csvString, imported, importedVariant,
                   escapeVars, encodeVars, appVars, scanVars>>

\* It gets one more blank line, before, between or after its lines.
InsertBlankLine ==
    /\ pc = "imported"
    /\ edit \in {"none", "blank"}
    /\ LET base == IF edit = "none" THEN csvString ELSE variant
           ls == textLines(base)
       IN /\ count(base, LF) - count(csvString, LF) < MaxBlankLines
          /\ \E k \in 0..Len(ls), b \in BlankLines :
                 variant' = join(SubSeq(ls, 1, k) \o <<b>>
                                     \o SubSeq(ls, k + 1, Len(ls)), <<LF>>)
    /\ edit' = "blank"
    /\ UNCHANGED <<pc, csvString, imported, importedVariant,
                   escapeVars, encodeVars, appVars, scanVars>>

\* It is saved with Windows line endings.
UseCrLf ==
    /\ pc = "imported"
    /\ edit = "none"
    /\ variant' = withCrLf(csvString)
    /\ edit' = "crlf"
    /\ UNCHANGED <<pc, csvString, imported, importedVariant,
                   escapeVars, encodeVars, appVars, scanVars>>

\* importedVariant = csvToWords(variant)
ImportVariant ==
    /\ pc = "imported"
    /\ edit # "none"
    /\ importedVariant' = csvToWords(variant)
    /\ pc' = "compared"
    /\ UNCHANGED <<csvString, imported, variant, edit,
                   escapeVars, encodeVars, appVars, scanVars>>

InitDecode ==
    /\ pc = "file"
    /\ csvString \in Blobs
    /\ imported = <<>> /\ variant = <<>> /\ edit = "none"
    /\ importedVariant = <<>>
    /\ EscapeIdle /\ EncodeIdle /\ ScanIdle
    /\ AppIdle

NextDecode == AddHeader \/ InsertBlankLine \/ UseCrLf \/ Import \/ ImportVariant

SpecDecode == InitDecode /\ [][NextDecode]_vars

SpecEncode == InitEncode /\ [][NextEncode]_vars

\* The characters the tokenizer and its trims tell apart.
LineAlphabet == {"a", Comma, Quote, Space}

\* "a,b","he said ""hi"""
quotedLine ==
    <<"\"","a",",","b","\"",",",
      "\"","h","e"," ","s","a","i","d"," ","\"","\"","h","i","\"","\"","\"">>

Lines == UNION {[1..m -> LineAlphabet] : m \in 0..MaxLineLen} \cup {quotedLine}

\* parseTwoFieldCsvLine up to its loop: trim, and return null for a blank line.
ParseBegin ==
    /\ pc = "parse"
    /\ trimmedLine' = trim(line)
    /\ i' = scanStart.i
    /\ currentField' = scanStart.currentField
    /\ fields' = scanStart.fields
    /\ inQuote' = scanStart.inQuote
    /\ pc' = IF Len(trim(line)) = 0 THEN "null" ELSE "scan"
    /\ UNCHANGED <<line, parsed, escapeVars, encodeVars, appVars, decodeVars>>

\* One iteration of its loop.
ParseChar ==
    /\ pc = "scan"
    /\ i <= Len(trimmedLine)
    /\ LET st == scanStep(trimmedLine,
                          [i |-> i, currentField |-> currentField,
                           fields |-> fields, inQuote |-> inQuote])
       IN /\ i' = st.i
          /\ currentField' = st.currentField
          /\ fields' = st.fields
          /\ inQuote' = st.inQuote
    /\ UNCHANGED <<pc, line, trimmedLine, parsed,
                   escapeVars, encodeVars, appVars, decodeVars>>

\* After its loop: push the last field and return the two-field result.
ParseEnd ==
    /\ pc = "scan"
    /\ i > Len(trimmedLine)
    /\ fields' = Append(fields, currentField)
    /\ parsed' = finishLine([i |-> i, currentField |-> currentField,
                             fields |-> fields, inQuote |-> inQuote])
    /\ pc' = "returned"
    /\ UNCHANGED <<line, trimmedLine, i, currentField, inQuote,
                   escapeVars, encodeVars, appVars, decodeVars>>

InitTokenize ==
    /\ pc = "parse"
    /\ line \in Lines
    /\ trimmedLine = <<>> /\ i = 1 /\ currentField = <<>>
    /\ fields = <<>> /\ inQuote = FALSE
    /\ parsed = [word |-> <<>>, definition |-> <<>>]
    /\ EscapeIdle /\ EncodeIdle /\ DecodeIdle
    /\ AppIdle

NextTokenize == ParseBegin \/ ParseChar \/ ParseEnd

SpecTokenize == InitTokenize /\ [][NextTokenize]_vars

-----------------------------------------------------------------------------
(* The application around the CSV core: the word list, its saved copy, and
   the handlers of the add form, the list, the export button and the import
   file input. Rendering changes the page only and is left out; the id and
   createdAt of an entry are fresh for every entry and are left out too. *)

\* What may be typed into the word and the definition input.
WordInputs == {<<>>, <<"a">>, <<Space, "b", Space>>}
DefinitionInputs == {<<Space>>, <<"x">>}

Entries == {[word |-> w, definition |-> <<"x">>] : w \in {<<"a">>, <<"b">>}}

\* The files that may be chosen for import: blank lines, the header alone,
\* records with and without the header, Windows line endings.
Files == { <<Space, LF, CR, LF>>,
           header,
           header \o <<LF>> \o catLine \o <<LF, "a", ",", "x">>,
           <<"b", ",", "x", CR, LF, "a", ",", "x", CR, LF>>,
           <<"a">> }

invalidFormat == "Error importing file: Invalid CSV format. Expected a list of \"word,definition\" pairs."
readFailed == "Error reading the file."
imported_n == "Successfully imported n words! Existing data has been replaced."

\* saveWords
saveWords(ws) == item(ws)

\* loadWords, run once as the page loads
loadWords(st) == IF st.present THEN st.value ELSE <<>>

handleAddWord ==
    /\ pc = "app"
    /\ \E wordValue \in WordInputs, definitionValue \in DefinitionInputs :
           LET wordText == trim(wordValue)
               definitionText == trim(definitionValue)
           IN IF wordText = <<>> \/ definitionText = <<>>
              THEN /\ alert' = [msg |-> "Word and Definition cannot be empty.", n |-> 0]
                   /\ UNCHANGED <<words, stored>>
              ELSE /\ Len(words) < MaxListLen
                   /\ words' = <<[word |-> wordText, definition |-> definitionText]>>
                                   \o words
                   /\ stored' = saveWords(words')
                   /\ UNCHANGED alert
    /\ UNCHANGED <<pc, fileInput, readers, download,
                   escapeVars, encodeVars, decodeVars, scanVars>>

\* A click on the delete button of the k-th entry: ids are unique, so the
\* filter removes that entry alone.
handleListClick ==
    /\ pc = "app"
    /\ \E k \in 1..Len(words) :
           /\ words' = SubSeq(words, 1, k - 1) \o SubSeq(words, k + 1, Len(words))
           /\ stored' = saveWords(words')
    /\ UNCHANGED <<pc, fileInput, readers, alert, download,
                   escapeVars, encodeVars, decodeVars, scanVars>>

handleExport ==
    /\ pc = "app"
    /\ IF Len(words) = 0
       THEN /\ alert' = [msg |-> "Nothing to export.", n |-> 0]
            /\ UNCHANGED download
       ELSE /\ download' = [present |-> TRUE, text |-> wordsToCsv(words)]
            /\ UNCHANGED alert
    /\ UNCHANGED <<pc, words, stored, fileInput, readers,
                   escapeVars, encodeVars, decodeVars, scanVars>>

\* A file is chosen in the file input: handleImport starts reading it.
handleImport ==
    /\ pc = "app"
    /\ Cardinality(readers) < MaxReaders
    /\ \E file \in Files \ readers :
           /\ fileInput' = "chosen"
           /\ readers' = readers \cup {file}
    /\ UNCHANGED <<pc, words, stored, alert, download,
                   escapeVars, encodeVars, decodeVars, scanVars>>

\* reader.onload that puts the imported entries in front of the old ones
readerOnLoad_Merge ==
    /\ pc = "app"
    /\ \E result \in readers :
           LET importedData == csvToWords(result)
           IN /\ readers' = readers \ {result}
              /\ IF \/ Len(importedData) = 0
                    \/ ~\A k \in 1..Len(importedData) :
                           {"word", "definition"} \subseteq DOMAIN importedData[k]
                 THEN /\ alert' = [msg |-> invalidFormat, n |-> 0]
                      /\ UNCHANGED <<words, stored>>
                 ELSE /\ words' = importedData \o words
                      /\ stored' = saveWords(words')
                      /\ alert' = [msg |-> imported_n, n |-> Len(importedData)]
              /\ fileInput' = ""
    /\ UNCHANGED <<pc, download, escapeVars, encodeVars, decodeVars, scanVars>>

\* reader.onload: decode, validate, replace and save, or alert the error;
\* finally clear the file input.
readerOnLoad ==
    /\ pc = "app"
    /\ \E result \in readers :
           LET importedData == csvToWords(result)
           IN /\ readers' = readers \ {result}
              /\ IF \/ Len(importedData) = 0
                    \/ ~\A k \in 1..Len(importedData) :
                           {"word", "definition"} \subseteq DOMAIN importedData[k]
                 THEN /\ alert' = [msg |-> invalidFormat, n |-> 0]
                      /\ UNCHANGED <<words, stored>>
                 ELSE /\ words' = importedData
                      /\ stored' = saveWords(words')
                      /\ alert' = [msg |-> imported_n, n |-> Len(importedData)]
              /\ fileInput' = ""
    /\ UNCHANGED <<pc, download, escapeVars, encodeVars, decodeVars, scanVars>>

\* reader.onerror
readerOnError ==
    /\ pc = "app"
    /\ \E result \in readers : readers' = readers \ {result}
    /\ alert' = [msg |-> readFailed, n |-> 0]
    /\ fileInput' = ""
    /\ UNCHANGED <<pc, words, stored, download,
                   escapeVars, encodeVars, decodeVars, scanVars>>

\* The page has loaded: loadWords has run on what localStorage holds.
InitApp ==
    /\ pc = "app"
    /\ stored \in {noItem} \cup
           {item(ws) : ws \in UNION {[1..m -> Entries] : m \in 0..MaxListLen}}
    /\ words = loadWords(stored)
    /\ fileInput = "" /\ readers = {} /\ alert = noAlert /\ download = noDownload
    /\ EscapeIdle /\ EncodeIdle /\ DecodeIdle /\ ScanIdle

NextApp ==
    \/ handleAddWord \/ handleListClick \/ handleExport
    \/ handleImport \/ readerOnLoad \/ readerOnError

SpecApp == InitApp /\ [][NextApp]_vars

-----------------------------------------------------------------------------
(* Claims about the escaper and the encoder *)

RoundTripped == pc = "imported"

\* C1: decoding what the encoder produced gives back the Records, same
\* length, same word and definition at every position, whatever text the
\* fields hold.
C1_RoundTrip == RoundTripped => imported = wordsArray

columnNames == [word |-> SubSeq(header, 1, 4),
                definition |-> SubSeq(header, 6, Len(header))]

\* C2: after encoding, the decoder drops exactly the header line: the records
\* are those of the non-blank lines after the first, one for one; no Records
\* encode to the bare header, which decodes to nothing; a first Record that
\* spells the column names is still returned; and when no field holds a
\* line feed there are as many records as Records.
C2_HeaderNotDecoded ==
    RoundTripped =>
        LET lines == nonBlankLines(csvString)
        IN /\ Len(lines) >= 1
           /\ Len(imported) = Len(lines) - 1
           /\ \A k \in 1..Len(imported) :
                  imported[k] = parseTwoFieldCsvLine(lines[k + 1])
           /\ wordsArray = <<>> => csvString = header /\ imported = <<>>
           /\ (wordsArray # <<>> /\ wordsArray[1] = columnNames)
                  => (imported # <<>> /\ imported[1] = columnNames)
           /\ (\A k \in 1..Len(wordsArray) :
                   /\ ~includes(wordsArray[k].word, LF)
                   /\ ~includes(wordsArray[k].definition, LF))
                  => Len(imported) = Len(wordsArray)

C2_Witness ==
    /\ RoundTripped
    /\ Len(wordsArray) = 2
    /\ wordsArray[1] = columnNames
    /\ Len(imported) = 2

\* C3: null and undefined are escaped as empty text; a text holding a comma,
\* a double-quote, a line feed or a carriage return comes back between two
\* double-quotes with each of its double-quotes doubled; any other text comes
\* back as it is.
C3_FieldEscaper ==
    /\ pc = "escaped" =>
        LET text == IF field \in {Null, Undefined} THEN <<>> ELSE field
            special == \E k \in 1..Len(text) : text[k] \in {Comma, Quote, LF, CR}
            inner == SubSeq(escaped, 2, Len(escaped) - 1)
            at(k) == k + count(SubSeq(text, 1, k - 1), Quote)
        IN IF special
           THEN /\ Len(escaped) = Len(text) + count(text, Quote) + 2
                /\ escaped[1] = Quote
                /\ escaped[Len(escaped)] = Quote
                /\ \A k \in 1..Len(text) :
                       /\ inner[at(k)] = text[k]
                       /\ text[k] = Quote => inner[at(k) + 1] = Quote
           ELSE escaped = text
    /\ (pc = "escaped" /\ field = commaText) =>
           escaped = <<"\"", "a", ",", "b", "\"">>
    /\ (pc = "escaped" /\ field = saidText) =>
           escaped = <<"\"","h","e"," ","s","a","i","d"," ",
                       "\"","\"","h","i","\"","\"","\"">>

C3_Witness ==
    /\ pc = "escaped"
    /\ field = <<Quote, CR, Quote>>
    /\ Len(escaped) = 7

\* One entry per Record, appended to the header after a line feed.
RECURSIVE layout(_, _)
layout(ws, k) ==
    IF k = 0 THEN header
    ELSE layout(ws, k - 1) \o <<LF>> \o escapeCsvField(ws[k].word)
             \o <<Comma>> \o escapeCsvField(ws[k].definition)

RECURSIVE countInFields(_, _)
countInFields(ws, c) ==
    IF ws = <<>> THEN 0
    ELSE count(ws[1].word, c) + count(ws[1].definition, c)
             + countInFields(Tail(ws), c)

\* C4: the encoder's text is the header, then for each Record in input order
\* a line feed and escaped(word) , escaped(definition); it does not end with
\* a line feed, holds no line feed beyond one per Record and those of the
\* fields, and no carriage return beyond those of the fields.
C4_EncoderLayout ==
    pc \in {"file", "imported"} =>
        /\ csvString = layout(wordsArray, Len(wordsArray))
        /\ csvString[Len(csvString)] # LF
        /\ count(csvString, LF) = Len(wordsArray) + countInFields(wordsArray, LF)
        /\ count(csvString, CR) = countInFields(wordsArray, CR)

C4_Witness ==
    /\ pc = "file"
    /\ Len(wordsArray) = 2
    /\ includes(wordsArray[2].definition, LF)
    /\ wordsArray[1].word # <<>>

-----------------------------------------------------------------------------
(* Claims about the line tokenizer *)

\* C5: the scan starts with the quoted-region flag false; a comma ends the
\* field when the flag is false and is field content when it is true; a
\* double-quote right before another while the flag is true appends one
\* double-quote, skips both and leaves the flag; any other double-quote flips
\* the flag and appends nothing; so "a,b","he said ""hi""" gives the word
\* a,b and the definition he said "hi".
C5_Step ==
    /\ (pc = "parse" /\ pc' = "scan") => (inQuote' = FALSE /\ i' = 1)
    /\ (pc = "scan" /\ pc' = "scan" /\ i' # i) =>
        LET char == trimmedLine[i]
            doubled == /\ inQuote
                       /\ i < Len(trimmedLine)
                       /\ trimmedLine[i + 1] = Quote
        IN /\ (char = Comma /\ ~inQuote) =>
                  /\ fields' = Append(fields, currentField)
                  /\ currentField' = <<>>
                  /\ inQuote' = inQuote /\ i' = i + 1
           /\ (char = Comma /\ inQuote) =>
                  /\ currentField' = Append(currentField, Comma)
                  /\ fields' = fields
                  /\ inQuote' = inQuote /\ i' = i + 1
           /\ (char = Quote /\ doubled) =>
                  /\ currentField' = Append(currentField, Quote)
                  /\ fields' = fields
                  /\ inQuote' = inQuote /\ i' = i + 2
           /\ (char = Quote /\ ~doubled) =>
                  /\ currentField' = currentField
                  /\ fields' = fields
                  /\ inQuote' = ~inQuote /\ i' = i + 1
    /\ (pc' = "returned" /\ line = quotedLine) =>
           parsed' = [word |-> <<"a", ",", "b">>,
                      definition |-> <<"h","e"," ","s","a","i","d"," ",
                                       "\"","h","i","\"">>]

C5_TokenizerQuoting == [][C5_Step]_vars

C5_Witness ==
    /\ pc = "returned"
    /\ line = quotedLine
    /\ parsed.word = <<"a", ",", "b">>

\* C6: the collapse of doubled double-quotes after the scan changes nothing:
\* the returned word and definition are the trimmed first and second fields
\* the scan accumulated (a missing second field being empty).
C6_CollapseIsNoOp ==
    pc = "returned" =>
        /\ parsed.word = trim(fields[1])
        /\ parsed.definition = IF Len(fields) >= 2 THEN trim(fields[2]) ELSE <<>>

-----------------------------------------------------------------------------
(* Claims about the decoder *)

Letters == {LowerCase[k] : k \in 1..Len(LowerCase)}
               \cup {UpperCase[k] : k \in 1..Len(UpperCase)}

IsText(x) == x \in Seq(Alphabet \cup Letters)

\* C7: the decoder returns, in line order, one record per line that is not
\* blank after trimming, the first such line left out when it is the header;
\* each record has a word and a definition, both text; the definition is
\* empty when the line has a single field, and fields after the second do
\* not matter.
C7_DecoderTotal ==
    pc \in {"imported", "compared"} =>
        LET lines == nonBlankLines(csvString)
            skip == IF lines # <<>> /\ isHeaderLine(lines[1]) THEN 1 ELSE 0
        IN /\ Len(imported) = Len(lines) - skip
           /\ \A k \in 1..Len(imported) :
                  LET st == scanFrom(trim(lines[k + skip]), scanStart)
                      fs == Append(st.fields, st.currentField)
                  IN /\ DOMAIN imported[k] = {"word", "definition"}
                     /\ IsText(imported[k].word)
                     /\ IsText(imported[k].definition)
                     /\ imported[k].word = trim(collapseQuotes(fs[1]))
                     /\ Len(fs) = 1 => imported[k].definition = <<>>
                     /\ Len(fs) >= 2 =>
                            imported[k].definition = trim(collapseQuotes(fs[2]))

C7_Witness ==
    /\ pc = "imported"
    /\ csvString = <<"a", LF, Comma>>
    /\ Len(imported) = 2
    /\ imported[1].definition = <<>>

cat == [word |-> <<"c","a","t">>,
        definition |-> <<"a"," ","s","m","a","l","l"," ","f","e","l","i","n","e">>]

\* C8: a text whose first non-blank line is not the header decodes to the
\* same records with the header line put in front of it; with or without
\* the header, cat,a small feline decodes to the one record cat.
C8_HeaderOptional ==
    /\ (pc = "compared" /\ edit = "header") => importedVariant = imported
    /\ (pc = "compared" /\ edit = "header" /\ csvString = catLine) =>
           (imported = <<cat>> /\ importedVariant = <<cat>>)

C8_Witness ==
    /\ pc = "compared"
    /\ edit = "header"
    /\ Len(imported) = 2

\* C9: blank lines (empty or whitespace only) put before, between or after
\* the lines of a text, the header line included, do not change the records
\* it decodes to.
C9_BlankLines ==
    (pc = "compared" /\ edit = "blank") => importedVariant = imported

C9_Witness ==
    /\ pc = "compared"
    /\ edit = "blank"
    /\ firstLineIsHeader(csvString)
    /\ isBlank(textLines(variant)[1])
    /\ Len(imported) = 1

\* C10: a text decodes to the same records after each of its line feeds is
\* replaced by carriage return + line feed.
C10_LineEndings ==
    (pc = "compared" /\ edit = "crlf") => importedVariant = imported

C10_Witness ==
    /\ pc = "compared"
    /\ edit = "crlf"
    /\ count(variant, CR) = 1
    /\ count(csvString, CR) = 0
    /\ Len(imported) = 2

-----------------------------------------------------------------------------
(* Claims about header detection *)

\* The line is word,definition in any letter case, with nothing but
\* whitespace before and after it.
spellsHeader(l) ==
    \E a \in 1..Len(l) :
        /\ a + Len(header) - 1 <= Len(l)
        /\ \A k \in 1..Len(l) :
               IF k < a \/ k > a + Len(header) - 1
               THEN IsWhiteSpace(l[k])
               ELSE \/ l[k] = header[k - a + 1]
                    \/ l[k] = upperHeader[k - a + 1]

\* C11 as claimed: a line is discarded only as the first non-blank line that
\* trimmed and lowercased is word,definition; a first line that is not
\* word,definition itself, such as one with whitespace added, is imported as
\* a Record; so is a later line equal to word,definition.
C11_AsClaimed ==
    pc = "imported" =>
        LET lines == nonBlankLines(csvString)
        IN /\ Len(imported) < Len(lines) => spellsHeader(lines[1])
           /\ (lines # <<>> /\ toLowerCase(lines[1]) # header) =>
                  /\ Len(imported) = Len(lines)
                  /\ imported[1] = parseTwoFieldCsvLine(lines[1])
           /\ \A k \in 2..Len(lines) :
                  lines[k] = header =>
                      imported[k - (Len(lines) - Len(imported))] = columnNames

\* C11, amended: the first non-blank line is discarded exactly when, trimmed
\* and lowercased, it is word,definition, so whitespace around it does not
\* keep it; every other non-blank line gives a Record, in order: a first line
\* with whitespace inside it (word, definition) or other column names, and a
\* line equal to word,definition at any later position.
C11_MinimalHeader ==
    pc = "imported" =>
        LET lines == nonBlankLines(csvString)
            skip == IF lines # <<>> /\ spellsHeader(lines[1]) THEN 1 ELSE 0
        IN /\ Len(imported) = Len(lines) - skip
           /\ \A k \in 1..Len(imported) :
                  imported[k] = parseTwoFieldCsvLine(lines[k + skip])
           /\ \A k \in 2..Len(lines) :
                  lines[k] = header => imported[k - skip] = columnNames
           /\ csvString = spacedHeader => imported = <<columnNames>>
           /\ csvString = otherHeader =>
                  imported = <<[word |-> SubSeq(otherHeader, 1, 4),
                                definition |-> SubSeq(otherHeader, 6, 12)]>>
           /\ csvString = <<Space>> \o header \o <<Space>> => imported = <<>>

C11_Witness ==
    /\ pc = "imported"
    /\ csvString = <<Space>> \o header \o <<Space>>
    /\ imported = <<>>

-----------------------------------------------------------------------------
(* Claims about the import handler *)

\* C12: when a file has been read, a text that decodes to no record gives
\* the invalid-format alert and leaves the word list and its saved copy as
\* they were; a text that decodes to one or more records makes the word list
\* exactly those records, in order, and the saved copy the same list; after
\* either, and after a failed read, the file input is empty.
C12_Step ==
    \A result \in readers :
        readers' = readers \ {result} =>
            /\ fileInput' = ""
            /\ alert'.msg # readFailed =>
                   IF csvToWords(result) = <<>>
                   THEN /\ alert'.msg = invalidFormat
                        /\ words' = words
                        /\ stored' = stored
                   ELSE /\ words' = csvToWords(result)
                        /\ stored' = item(csvToWords(result))
                        /\ alert'.msg # invalidFormat

====
